---- MODULE Spec2Model ----
(***************************************************************************)
(* A model of the slide-topic / exam-question tools under tools/:          *)
(*   match_topics.py            normalize, combined_score, match_topics    *)
(*   extract_exam_questions.py  collect_ordered_lines, extract_questions   *)
(*   extract_slide_titles.py    extract_titles, main                       *)
(*   run_pipeline.py            main                                       *)
(*                                                                         *)
(* Text is a sequence of one-character strings (the element "i_uml" stands *)
(* for the single character U+00EF).  A float score is the exact rational  *)
(* [n, d] it denotes; comparisons cross-multiply, so a result differs from *)
(* the Python float only where the float is within one ulp of a threshold. *)
(***************************************************************************)
EXTENDS Integers, Sequences, FiniteSets, TLC

(* --------------------------- characters -------------------------------- *)
LowerLetters ==
  {"a","b","c","d","e","f","g","h","i","j","k","l","m",
   "n","o","p","q","r","s","t","u","v","w","x","y","z"}
Digits == {"0","1","2","3","4","5","6","7","8","9"}
UpperToLower ==
  [c \in {"A","B","C","D","E","F","G","H","I","J","K","L","M",
          "N","O","P","Q","R","S","T","U","V","W","X","Y","Z"} |->
     CASE c = "A" -> "a" [] c = "B" -> "b" [] c = "C" -> "c" [] c = "D" -> "d"
       [] c = "E" -> "e" [] c = "F" -> "f" [] c = "G" -> "g" [] c = "H" -> "h"
       [] c = "I" -> "i" [] c = "J" -> "j" [] c = "K" -> "k" [] c = "L" -> "l"
       [] c = "M" -> "m" [] c = "N" -> "n" [] c = "O" -> "o" [] c = "P" -> "p"
       [] c = "Q" -> "q" [] c = "R" -> "r" [] c = "S" -> "s" [] c = "T" -> "t"
       [] c = "U" -> "u" [] c = "V" -> "v" [] c = "W" -> "w" [] c = "X" -> "x"
       [] c = "Y" -> "y" [] c = "Z" -> "z"]
WhiteSpace == {" "}
\* \w of a str pattern: letters of any script, digits and the underscore
IsWordChar(c) ==
  c \in LowerLetters \cup Digits \cup DOMAIN UpperToLower \cup {"_", "i_uml"}
IsSpace(c) == c \in WhiteSpace

(* ----------------------------- str helpers ----------------------------- *)
Min2(a, b) == IF a <= b THEN a ELSE b
Max2(a, b) == IF a >= b THEN a ELSE b
Range(s) == {s[i] : i \in DOMAIN s}
SetMax(S) == CHOOSE x \in S : \A y \in S : y <= x
SetMin(S) == CHOOSE x \in S : \A y \in S : x <= y

\* str.lower()
lower(t) ==
  [i \in DOMAIN t |-> IF t[i] \in DOMAIN UpperToLower THEN UpperToLower[t[i]] ELSE t[i]]

RECURSIVE lstrip(_)
lstrip(t) == IF t # <<>> /\ IsSpace(Head(t)) THEN lstrip(Tail(t)) ELSE t
RECURSIVE rstrip(_)
rstrip(t) ==
  IF t # <<>> /\ IsSpace(t[Len(t)]) THEN rstrip(SubSeq(t, 1, Len(t) - 1)) ELSE t
\* str.strip()
strip(t) == rstrip(lstrip(t))

\* str.split(): the maximal runs of non-whitespace characters
RECURSIVE split_from(_, _)
split_from(t, i) ==
  LET starts == {p \in i..Len(t) : ~IsSpace(t[p])}
  IN  IF starts = {} THEN <<>>
      ELSE LET b == SetMin(starts)
               ends == {p \in b..Len(t) : p = Len(t) \/ IsSpace(t[p + 1])}
               e == SetMin(ends)
           IN  <<SubSeq(t, b, e)>> \o split_from(t, e + 1)
split(t) == split_from(t, 1)

\* " ".join(words)
RECURSIVE join(_)
join(ws) ==
  IF ws = <<>> THEN <<>>
  ELSE IF Len(ws) = 1 THEN ws[1]
  ELSE ws[1] \o <<" ">> \o join(Tail(ws))

\* \b at the gap in front of t[p] (p in 1..Len(t)+1)
WordBoundary(t, p) ==
  LET before == p > 1 /\ IsWordChar(t[p - 1])
      after  == p <= Len(t) /\ IsWordChar(t[p])
  IN  before # after

MatchesAt(t, pat, i) ==
  /\ i + Len(pat) - 1 <= Len(t)
  /\ \A k \in 1..Len(pat) : t[i + k - 1] = pat[k]
  /\ WordBoundary(t, i)
  /\ WordBoundary(t, i + Len(pat))

\* re.sub(rf"\b{re.escape(syn)}\b", canon, t): leftmost, non-overlapping
RECURSIVE sub_word_from(_, _, _, _)
sub_word_from(t, syn, canon, i) ==
  LET hits == {p \in i..Len(t) : MatchesAt(t, syn, p)}
  IN  IF hits = {} THEN SubSeq(t, i, Len(t))
      ELSE LET m == SetMin(hits)
           IN  SubSeq(t, i, m - 1) \o canon
               \o sub_word_from(t, syn, canon, m + Len(syn))
sub_word(t, syn, canon) == sub_word_from(t, syn, canon, 1)

\* _punct_re.sub(" ", t) with _punct_re = [^a-z0-9\s]
punct_sub(t) ==
  [i \in DOMAIN t |->
     IF t[i] \in LowerLetters \cup Digits \/ IsSpace(t[i]) THEN t[i] ELSE " "]

\* _ws_re.sub(" ", t).strip() with _ws_re = \s+
ws_collapse_strip(t) == join(split(t))

(* ------------------------------ bounds --------------------------------- *)
MaxSlides == 2
MaxExam == 2
MaxLines == 3
MaxPages == 2

(* --------------------------- match_topics.py --------------------------- *)
\* load_aliases(None): the built-in table, in dict insertion order
default_aliases ==
  <<[canon |-> <<"n", "a", "i", "v", "e", " ", "b", "a", "y", "e", "s">>,
      syns  |-> <<<<"n", "b">>,
                 <<"n", "a", "i_uml", "v", "e", " ", "b", "a", "y", "e", "s">>>>],
     [canon |-> <<"k", "-", "m", "e", "a", "n", "s">>,
      syns  |-> <<<<"k", "m", "e", "a", "n", "s">>,
                 <<"k", " ", "m", "e", "a", "n", "s">>,
                 <<"k", "-", "m", "e", "a", "n", "s", " ", "c", "l", "u", "s", "t", "e", "r", "i", "n", "g">>>>],
     [canon |-> <<"k", "-", "m", "e", "d", "o", "i", "d", "s">>,
      syns  |-> <<<<"k", "m", "e", "d", "o", "i", "d", "s">>,
                 <<"k", " ", "m", "e", "d", "o", "i", "d", "s">>>>],
     [canon |-> <<"h", "i", "e", "r", "a", "r", "c", "h", "i", "c", "a", "l", " ", "c", "l", "u", "s", "t", "e", "r", "i", "n", "g">>,
      syns  |-> <<<<"a", "g", "g", "l", "o", "m", "e", "r", "a", "t", "i", "v", "e", " ", "c", "l", "u", "s", "t", "e", "r", "i", "n", "g">>,
                 <<"d", "i", "v", "i", "s", "i", "v", "e", " ", "c", "l", "u", "s", "t", "e", "r", "i", "n", "g">>>>],
     [canon |-> <<"p", "r", "i", "n", "c", "i", "p", "a", "l", " ", "c", "o", "m", "p", "o", "n", "e", "n", "t", " ", "a", "n", "a", "l", "y", "s", "i", "s">>,
      syns  |-> <<<<"p", "c", "a">>>>],
     [canon |-> <<"s", "u", "p", "p", "o", "r", "t", " ", "v", "e", "c", "t", "o", "r", " ", "m", "a", "c", "h", "i", "n", "e">>,
      syns  |-> <<<<"s", "v", "m">>,
                 <<"s", "u", "p", "p", "o", "r", "t", " ", "v", "e", "c", "t", "o", "r", " ", "m", "a", "c", "h", "i", "n", "e", "s">>,
                 <<"s", "u", "p", "p", "o", "r", "t", " ", "v", "e", "c", "t", "o", "r", " ", "c", "l", "a", "s", "s", "i", "f", "i", "e", "r">>>>],
     [canon |-> <<"d", "e", "c", "i", "s", "i", "o", "n", " ", "t", "r", "e", "e">>,
      syns  |-> <<<<"d", "t">>,
                 <<"i", "d", "3">>,
                 <<"c", "4", ".", "5">>,
                 <<"c", "a", "r", "t">>>>],
     [canon |-> <<"a", "s", "s", "o", "c", "i", "a", "t", "i", "o", "n", " ", "r", "u", "l", "e", "s">>,
      syns  |-> <<<<"a", "p", "r", "i", "o", "r", "i">>,
                 <<"f", "p", " ", "g", "r", "o", "w", "t", "h">>,
                 <<"f", "r", "e", "q", "u", "e", "n", "t", " ", "p", "a", "t", "t", "e", "r", "n">>,
                 <<"m", "a", "r", "k", "e", "t", " ", "b", "a", "s", "k", "e", "t">>>>],
     [canon |-> <<"o", "u", "t", "l", "i", "e", "r", " ", "d", "e", "t", "e", "c", "t", "i", "o", "n">>,
      syns  |-> <<<<"a", "n", "o", "m", "a", "l", "y", " ", "d", "e", "t", "e", "c", "t", "i", "o", "n">>>>],
     [canon |-> <<"f", "e", "a", "t", "u", "r", "e", " ", "s", "e", "l", "e", "c", "t", "i", "o", "n">>,
      syns  |-> <<<<"a", "t", "t", "r", "i", "b", "u", "t", "e", " ", "s", "e", "l", "e", "c", "t", "i", "o", "n">>>>],
     [canon |-> <<"d", "a", "t", "a", " ", "p", "r", "e", "p", "r", "o", "c", "e", "s", "s", "i", "n", "g">>,
      syns  |-> <<<<"d", "a", "t", "a", " ", "p", "r", "e", "p", "a", "r", "a", "t", "i", "o", "n">>,
                 <<"d", "a", "t", "a", " ", "c", "l", "e", "a", "n", "i", "n", "g">>,
                 <<"d", "a", "t", "a", " ", "c", "l", "e", "a", "n", "s", "i", "n", "g">>>>],
     [canon |-> <<"d", "i", "s", "t", "a", "n", "c", "e", " ", "m", "e", "a", "s", "u", "r", "e", "s">>,
      syns  |-> <<<<"s", "i", "m", "i", "l", "a", "r", "i", "t", "y", " ", "m", "e", "a", "s", "u", "r", "e", "s">>,
                 <<"d", "i", "s", "s", "i", "m", "i", "l", "a", "r", "i", "t", "y">>,
                 <<"p", "r", "o", "x", "i", "m", "i", "t", "y">>>>],
     [canon |-> <<"l", "o", "g", "i", "s", "t", "i", "c", " ", "r", "e", "g", "r", "e", "s", "s", "i", "o", "n">>,
      syns  |-> <<<<"l", "o", "g", "i", "t">>>>],
     [canon |-> <<"l", "i", "n", "e", "a", "r", " ", "r", "e", "g", "r", "e", "s", "s", "i", "o", "n">>,
      syns  |-> <<<<"o", "l", "s">>>>],
     [canon |-> <<"n", "e", "u", "r", "a", "l", " ", "n", "e", "t", "w", "o", "r", "k", "s">>,
      syns  |-> <<<<"a", "n", "n">>,
                 <<"m", "l", "p">>>>],
     [canon |-> <<"k", "-", "n", "e", "a", "r", "e", "s", "t", " ", "n", "e", "i", "g", "h", "b", "o", "r", "s">>,
      syns  |-> <<<<"k", "n", "n">>,
                 <<"k", " ", "n", "n">>,
                 <<"k", "-", "n", "n">>>>],
     [canon |-> <<"d", "i", "m", "e", "n", "s", "i", "o", "n", "a", "l", "i", "t", "y", " ", "r", "e", "d", "u", "c", "t", "i", "o", "n">>,
      syns  |-> <<<<"f", "e", "a", "t", "u", "r", "e", " ", "e", "x", "t", "r", "a", "c", "t", "i", "o", "n">>>>],
     [canon |-> <<"c", "r", "o", "s", "s", " ", "v", "a", "l", "i", "d", "a", "t", "i", "o", "n">>,
      syns  |-> <<<<"k", "-", "f", "o", "l", "d">>,
                 <<"k", " ", "f", "o", "l", "d">>>>] >>

STOPWORDS ==
  {<<"t", "h", "e">>,
   <<"a">>,
   <<"a", "n">>,
   <<"o", "f">>,
   <<"a", "n", "d">>,
   <<"o", "r">>,
   <<"t", "o">>,
   <<"f", "o", "r">>,
   <<"f", "r", "o", "m">>,
   <<"i", "n">>,
   <<"o", "n">>,
   <<"w", "i", "t", "h">>,
   <<"w", "i", "t", "h", "o", "u", "t">>,
   <<"b", "y">>,
   <<"a", "s">>,
   <<"a", "t">>,
   <<"i", "n", "t", "o">>,
   <<"o", "v", "e", "r">>,
   <<"u", "n", "d", "e", "r">>,
   <<"b", "e", "t", "w", "e", "e", "n">>,
   <<"a", "m", "o", "n", "g">>,
   <<"a", "g", "a", "i", "n", "s", "t">>}

\* sorted(aliases.keys(), key=len, reverse=True): a stable sort, so entries
\* of equal key length keep their insertion order
RECURSIVE insert_by_len(_, _)
insert_by_len(sorted, e) ==
  IF sorted = <<>> THEN <<e>>
  ELSE IF Len(Head(sorted).canon) >= Len(e.canon)
       THEN <<Head(sorted)>> \o insert_by_len(Tail(sorted), e)
       ELSE <<e>> \o sorted
RECURSIVE sorted_by_len(_)
sorted_by_len(aliases) ==
  IF aliases = <<>> THEN <<>>
  ELSE insert_by_len(sorted_by_len(SubSeq(aliases, 1, Len(aliases) - 1)),
                     aliases[Len(aliases)])

\* the inner loop: for syn in aliases[canon]: t = re.sub(...)
\* (the test on Len makes t1 a value before the next iteration starts)
apply_syns_first_only(t, syns, canon) ==
  IF syns = <<>> THEN t ELSE sub_word(t, Head(syns), canon)
RECURSIVE apply_syns(_, _, _)
apply_syns(t, syns, canon) ==
  IF syns = <<>> THEN t
  ELSE LET t1 == sub_word(t, Head(syns), canon)
       IN  IF Len(t1) >= 0 THEN apply_syns(t1, Tail(syns), canon) ELSE t1

\* the outer loop: for canon in sorted(...)
RECURSIVE apply_aliases(_, _)
apply_aliases(t, entries) ==
  IF entries = <<>> THEN t
  ELSE LET t1 == apply_syns(t, Head(entries).syns, Head(entries).canon)
       IN  IF Len(t1) >= 0 THEN apply_aliases(t1, Tail(entries)) ELSE t1

\* tokens = [w for w in t.split() if w not in STOPWORDS]
drop_stopwords(ws) == SelectSeq(ws, LAMBDA w : w \notin STOPWORDS)

normalize(text, aliases) ==
  LET t0 == strip(lower(text))
      t1 == apply_aliases(t0, sorted_by_len(aliases))
      t2 == punct_sub(t1)
      t3 == ws_collapse_strip(t2)
  IN  join(drop_stopwords(split(t3)))

\* tokens(text): [w for w in text.split() if w]
tokens(text) == split(text)

(* A ratio is a record [n |-> numerator, d |-> denominator] with d > 0.    *)
Ratio(n, d) == [n |-> n, d |-> d]
Geq(x, y) == x.n * y.d >= y.n * x.d
Less(x, y) == ~Geq(x, y)
Zero == Ratio(0, 1)

jaccard(a_tokens, b_tokens) ==
  IF a_tokens = <<>> \/ b_tokens = <<>> THEN Zero
  ELSE LET a == Range(a_tokens)
           b == Range(b_tokens)
       IN  Ratio(Cardinality(a \cap b), Cardinality(a \cup b))

token_overlap(a_tokens, b_tokens) ==
  IF a_tokens = <<>> \/ b_tokens = <<>> THEN Zero
  ELSE LET a == Range(a_tokens)
           b == Range(b_tokens)
       IN  Ratio(Cardinality(a \cap b), Min2(Cardinality(a), Cardinality(b)))

\* length of the common run of a[i..ahi] and b[j..bhi] that starts at (i, j)
RECURSIVE run_len(_, _, _, _, _, _)
run_len(a, b, i, j, ahi, bhi) ==
  IF i <= ahi /\ j <= bhi /\ a[i] = b[j]
  THEN 1 + run_len(a, b, i + 1, j + 1, ahi, bhi)
  ELSE 0

\* SequenceMatcher.find_longest_match(alo, ahi, blo, bhi) without junk: the
\* longest block, of those the one starting earliest in a, then earliest in b
find_longest_match(a, b, alo, ahi, blo, bhi) ==
  LET k  == SetMax({0} \cup {run_len(a, b, i, j, ahi, bhi) : i \in alo..ahi, j \in blo..bhi})
      bi == SetMin({i \in alo..ahi : \E j \in blo..bhi : run_len(a, b, i, j, ahi, bhi) = k})
      bj == SetMin({j \in blo..bhi : run_len(a, b, bi, j, ahi, bhi) = k})
  IN  IF k = 0 THEN [i |-> alo, j |-> blo, size |-> 0]
      ELSE [i |-> bi, j |-> bj, size |-> k]

\* sum of the sizes of SequenceMatcher.get_matching_blocks() on the
\* (inclusive) ranges a[alo..ahi], b[blo..bhi]
RECURSIVE matched_chars(_, _, _, _, _, _)
matched_chars(a, b, alo, ahi, blo, bhi) ==
  IF alo > ahi \/ blo > bhi THEN 0
  ELSE LET m == find_longest_match(a, b, alo, ahi, blo, bhi)
       IN  IF m.size = 0 THEN 0
           ELSE m.size
                + matched_chars(a, b, alo, m.i - 1, blo, m.j - 1)
                + matched_chars(a, b, m.i + m.size, ahi, m.j + m.size, bhi)

\* SequenceMatcher(None, a, b).ratio() = 2.0 * matches / length, 1.0 if both
\* are empty (autojunk only acts on a second string of 200+ characters)
char_similarity(a, b) ==
  IF Len(a) + Len(b) = 0 THEN Ratio(1, 1)
  ELSE Ratio(2 * matched_chars(a, b, 1, Len(a), 1, Len(b)), Len(a) + Len(b))

\* 0.40 * c + 0.30 * j + 0.30 * o
combined_score(a, b) ==
  LET a_toks == tokens(a)
      b_toks == tokens(b)
      j == jaccard(a_toks, b_toks)
      o == token_overlap(a_toks, b_toks)
      c == char_similarity(a, b)
  IN  Ratio(4 * c.n * j.d * o.d + 3 * j.n * c.d * o.d + 3 * o.n * c.d * j.d,
            10 * c.d * j.d * o.d)

HighScore == Ratio(85, 100)
MediumScore == Ratio(70, 100)
confidence(score) ==
  IF Geq(score, HighScore) THEN "high"
  ELSE IF Geq(score, MediumScore) THEN "medium"
  ELSE "low"

\* round(s, 3) in thousandths: nearest, ties to even
round3(s) ==
  LET q == (1000 * s.n) \div s.d
      r == (1000 * s.n) % s.d
  IN  IF 2 * r > s.d THEN q + 1
      ELSE IF 2 * r < s.d THEN q
      ELSE IF q % 2 = 0 THEN q ELSE q + 1

NBC ==
  <<"N", "a", "i", "v", "e", " ", "B", "a", "y", "e", "s", " ", "C", "l", "a", "s", "s", "i", "f", "i", "c", "a", "t", "i", "o", "n">>
KMC ==
  <<"K", "-", "M", "e", "a", "n", "s", " ", "C", "l", "u", "s", "t", "e", "r", "i", "n", "g">>
NBQ ==
  <<"W", "h", "a", "t", " ", "a", "r", "e", " ", "t", "h", "e", " ", "a", "s", "s", "u", "m", "p", "t", "i", "o", "n", "s", " ", "o", "f", " ", "t", "h", "e", " ", "n", "a", "i", "v", "e", " ", "b", "a", "y", "e", "s", " ", "c", "l", "a", "s", "s", "i", "f", "i", "e", "r", "?">>
KMQ ==
  <<"E", "x", "p", "l", "a", "i", "n", " ", "h", "o", "w", " ", "k", " ", "m", "e", "a", "n", "s", " ", "c", "l", "u", "s", "t", "e", "r", "i", "n", "g", " ", "a", "s", "s", "i", "g", "n", "s", " ", "p", "o", "i", "n", "t", "s", " ", "t", "o", " ", "c", "e", "n", "t", "r", "o", "i", "d", "s", ".">>
(* --------------------------- inputs of match_topics -------------------- *)
SeqsUpTo(S, n) == UNION {[1..k -> S] : k \in 0..n}

T_b == <<"b">>
T_bcdef == <<"b", "c", "d", "e", "f">>
T_nb == <<"n", "b">>
T_naive_bayes == <<"N", "a", "i", "v", "e", " ", "B", "a", "y", "e", "s">>

TopicPool ==
  {[page |-> 1, topic |-> T_b], [page |-> 2, topic |-> T_b],
   [page |-> 3, topic |-> T_naive_bayes]}
QuestionPool == {T_b, T_bcdef, T_nb}
AliasPool == {<<>>, default_aliases}
MinScorePool == {Ratio(0, 1), Ratio(1333, 10000), Ratio(72, 100)}
MaxMatchesPool == {-1, 0, 1, 2}

\* the end-to-end example: two slides lines, two exam lines, the defaults
ExampleSlides ==
  <<[page |-> 1, topic |-> NBC], [page |-> 2, topic |-> KMC]>>
ExampleExam == <<NBQ, KMQ>>
ExampleInput ==
  [slides |-> ExampleSlides, exam |-> ExampleExam, aliases |-> default_aliases,
   min_score |-> Ratio(72, 100), max_matches |-> 2]

MatchInputs ==
  [slides : SeqsUpTo(TopicPool, MaxSlides), exam : SeqsUpTo(QuestionPool, MaxExam),
   aliases : AliasPool, min_score : MinScorePool, max_matches : MaxMatchesPool]
  \cup {ExampleInput}

(* ------------------------------ state ---------------------------------- *)
\* Each tool runs as a process of its own; a specification runs one tool
\* and leaves the variables of the others at their idle values.
VARIABLES
  \* match_topics.py, match_topics: arguments, locals and position
  slides, exam, aliases, min_score, max_matches,
  norm_exam, results, unmatched_slides, unmatched_exam, mpc, ti,
  \* history: for every record of results, the index in slides of the
  \* (page, topic) entry whose iteration appended it
  origin,
  \* extract_exam_questions.py, collect_ordered_lines and extract_questions:
  \* the layout lines of the document, locals and position
  layout, lines, li, items, buf, last_y, last_size, unique_items, qpc,
  \* history: ids of the lines in buf; per line id the string it was flushed
  \* as; ids of the lines skipped as empty and as header
  buf_ids, flushed_as, flushed_with, skipped_empty, skipped_header,
  \* match_topics.py, normalize: the pair (canon, syn), the text, the result
  n_canon, n_syn, n_text, n_out, npc,
  \* extract_slide_titles.py, extract_titles and main: the pages of the
  \* document, the rows, the page index, the written file, the position
  document, rows, page_idx, out_file, tpc,
  \* run_pipeline.py, main: whether pdfminer imports, the parsed arguments,
  \* the position, the exit code, the argv of the matcher stage
  given, pdfminer_ok, args, ppc, exit_code, cmd,
  \* history: the stages started so far and their return codes
  started, returncodes

mvars == <<slides, exam, aliases, min_score, max_matches, norm_exam,
           results, unmatched_slides, unmatched_exam, mpc, ti, origin>>
qvars == <<layout, lines, li, items, buf, last_y, last_size, unique_items, qpc,
           buf_ids, flushed_as, flushed_with, skipped_empty, skipped_header>>
nvars == <<n_canon, n_syn, n_text, n_out, npc>>
tvars == <<document, rows, page_idx, out_file, tpc>>
pvars == <<given, pdfminer_ok, args, ppc, exit_code, cmd, started, returncodes>>
vars == <<mvars, qvars, nvars, tvars, pvars>>

MatchIdle ==
  /\ slides = <<>> /\ exam = <<>> /\ aliases = <<>>
  /\ min_score = [n |-> 0, d |-> 1] /\ max_matches = 0
  /\ norm_exam = <<>> /\ results = <<>> /\ unmatched_slides = <<>>
  /\ unmatched_exam = <<>> /\ mpc = "idle" /\ ti = 0 /\ origin = <<>>
QuestionsIdle ==
  /\ layout = <<>> /\ lines = <<>> /\ li = 0 /\ items = <<>> /\ buf = <<>>
  /\ last_y = <<>> /\ last_size = <<>> /\ unique_items = <<>> /\ qpc = "idle"
  /\ buf_ids = <<>> /\ flushed_as = <<>> /\ flushed_with = <<>>
  /\ skipped_empty = {}
  /\ skipped_header = {}
NormalizeIdle ==
  /\ n_canon = <<>> /\ n_syn = <<>> /\ n_text = <<>> /\ n_out = <<>>
  /\ npc = "idle"
TitlesIdle ==
  /\ document = <<>> /\ rows = <<>> /\ page_idx = 0 /\ out_file = <<>>
  /\ tpc = "idle"
PipelineIdle ==
  /\ given = <<>> /\ pdfminer_ok = FALSE /\ args = <<>> /\ ppc = "idle" /\ exit_code = <<>>
  /\ cmd = <<>> /\ started = <<>> /\ returncodes = <<>>

(* ---------------------------- match_topics ----------------------------- *)
\* if s >= min_score
passes_always(s, m) == TRUE
passes_reversed(s, m) == Geq(m, s)
passes(s, m) == Geq(s, m)

\* the inner loop over norm_exam: scored.append((s, orig_q)) for the
\* questions that pass
RECURSIVE score_all(_, _, _)
score_all(norm_topic, ne, m) ==
  IF ne = <<>> THEN <<>>
  ELSE LET s == combined_score(norm_topic, Head(ne).norm)
           rest == score_all(norm_topic, Tail(ne), m)
       IN  IF passes(s, m) THEN <<[s |-> s, q |-> Head(ne).orig]>> \o rest
           ELSE rest

\* scored.sort(key=lambda x: x[0], reverse=True): stable, descending
RECURSIVE insert_desc(_, _)
insert_desc(sorted, e) ==
  IF sorted = <<>> THEN <<e>>
  ELSE IF Geq(Head(sorted).s, e.s)
       THEN <<Head(sorted)>> \o insert_desc(Tail(sorted), e)
       ELSE <<e>> \o sorted
RECURSIVE insert_asc(_, _)
insert_asc(sorted, e) ==
  IF sorted = <<>> THEN <<e>>
  ELSE IF Geq(e.s, Head(sorted).s)
       THEN <<Head(sorted)>> \o insert_asc(Tail(sorted), e)
       ELSE <<e>> \o sorted
RECURSIVE sort_asc(_)
sort_asc(scored) ==
  IF scored = <<>> THEN <<>>
  ELSE insert_asc(sort_asc(SubSeq(scored, 1, Len(scored) - 1)), scored[Len(scored)])
RECURSIVE sort_desc(_)
sort_desc(scored) ==
  IF scored = <<>> THEN <<>>
  ELSE insert_desc(sort_desc(SubSeq(scored, 1, Len(scored) - 1)), scored[Len(scored)])

\* scored[:max_matches]: a negative stop counts from the end
slice_one_more(scored, n) ==
  IF n >= 0 THEN SubSeq(scored, 1, Min2(n + 1, Len(scored)))
  ELSE SubSeq(scored, 1, Max2(0, Len(scored) + n + 1))
slice_to(scored, n) ==
  IF n >= 0 THEN SubSeq(scored, 1, Min2(n, Len(scored)))
  ELSE SubSeq(scored, 1, Max2(0, Len(scored) + n))

\* if q in unmatched_exam: unmatched_exam.remove(q)   (the first occurrence)
remove_all(list, q) == SelectSeq(list, LAMBDA x : x # q)
RECURSIVE remove_first(_, _)
remove_first(list, q) ==
  IF list = <<>> THEN <<>>
  ELSE IF Head(list) = q THEN Tail(list)
  ELSE <<Head(list)>> \o remove_first(Tail(list), q)

\* for s, q in top: the removals from unmatched_exam
RECURSIVE claim_all(_, _)
claim_all(unmatched, top) ==
  IF top = <<>> THEN unmatched
  ELSE claim_all(remove_first(unmatched, Head(top).q), Tail(top))

\* for s, q in top: the records appended to results
match_records(page, topic, top) ==
  [i \in 1..Len(top) |->
     [page          |-> page,
      slide_topic   |-> topic,
      exam_question |-> top[i].q,
      score         |-> round3(top[i].s),
      confidence    |-> confidence(top[i].s)]]

\* match_topics, entry: the three result lists and norm_exam
MatchStart ==
  /\ mpc = "start"
  /\ results' = <<>>
  /\ unmatched_slides' = <<>>
  /\ unmatched_exam' = exam
  /\ norm_exam' = [i \in 1..Len(exam) |->
                     [orig |-> exam[i], norm |-> normalize(exam[i], aliases)]]
  /\ origin' = <<>>
  /\ mpc' = "loop"
  /\ ti' = 1
  /\ UNCHANGED <<slides, exam, aliases, min_score, max_matches>>
  /\ UNCHANGED <<qvars, nvars, tvars, pvars>>

\* one iteration of `for page, topic in slides`
MatchTopic ==
  /\ mpc = "loop"
  /\ ti <= Len(slides)
  /\ LET page  == slides[ti].page
         topic == slides[ti].topic
         norm_topic == normalize(topic, aliases)
         scored == sort_desc(score_all(norm_topic, norm_exam, min_score))
         top == slice_to(scored, max_matches)
     IN  IF top = <<>>
         THEN /\ unmatched_slides' = Append(unmatched_slides, slides[ti])
              /\ UNCHANGED <<results, unmatched_exam, origin>>
         ELSE /\ unmatched_exam' = claim_all(unmatched_exam, top)
              /\ results' = results \o match_records(page, topic, top)
              /\ origin' = origin \o [i \in 1..Len(top) |-> ti]
              /\ UNCHANGED unmatched_slides
  /\ ti' = ti + 1
  /\ UNCHANGED <<slides, exam, aliases, min_score, max_matches, norm_exam, mpc>>
  /\ UNCHANGED <<qvars, nvars, tvars, pvars>>

\* return results, unmatched_slides, unmatched_exam
MatchReturn ==
  /\ mpc = "loop"
  /\ ti > Len(slides)
  /\ mpc' = "done"
  /\ UNCHANGED <<slides, exam, aliases, min_score, max_matches, norm_exam,
                 results, unmatched_slides, unmatched_exam, ti, origin>>
  /\ UNCHANGED <<qvars, nvars, tvars, pvars>>

MatchInit ==
  /\ \E inp \in MatchInputs :
       /\ slides = inp.slides
       /\ exam = inp.exam
       /\ aliases = inp.aliases
       /\ min_score = inp.min_score
       /\ max_matches = inp.max_matches
  /\ norm_exam = <<>>
  /\ results = <<>>
  /\ unmatched_slides = <<>>
  /\ unmatched_exam = <<>>
  /\ origin = <<>>
  /\ mpc = "start"
  /\ ti = 0

(* ---------------------- extract_exam_questions.py ---------------------- *)
None == <<>>
Some(v) == <<v>>

UpperLetters == DOMAIN UpperToLower
\* "-" and the characters U+2022, U+2219, U+25E6 and U+00B7
BulletChars == {"-", "u2022", "u2219", "u25E6", "u00B7"}
HeaderWords ==
  {<<"s", "e", "c", "t", "i", "o", "n">>,
   <<"p", "a", "r", "t">>,
   <<"f", "i", "n", "a", "l">>,
   <<"m", "i", "d", "t", "e", "r", "m">>,
   <<"e", "x", "a", "m">>}

IsPrefix(p, t) == Len(p) <= Len(t) /\ SubSeq(t, 1, Len(p)) = p
AllDigits(t) == \A i \in DOMAIN t : t[i] \in Digits

\* HEADER_RE.match(t):
\*   ^(?:page\s*\d+|\d{4}|section|part|final|midterm|exam)\b
header_match(t) ==
  \/ \E w \in HeaderWords : IsPrefix(w, t) /\ WordBoundary(t, Len(w) + 1)
  \/ /\ Len(t) >= 4
     /\ AllDigits(SubSeq(t, 1, 4))
     /\ WordBoundary(t, 5)
  \/ /\ IsPrefix(<<"p", "a", "g", "e">>, t)
     /\ LET ds == SetMin({p \in 5..Len(t) + 1 : p > Len(t) \/ ~IsSpace(t[p])})
            de == SetMin({p \in ds..Len(t) + 1 : p > Len(t) \/ t[p] \notin Digits})
        IN  de > ds /\ WordBoundary(t, de)

\* one alternative of BULLET_RE in front of its \s+ :
\*   [-...] | \d{1,3}[.)] | \(?\d{1,3}\)?[.)]? | [a-zA-Z][.)]
is_bullet_token(tok) ==
  LET n == Len(tok)
      closers == {".", ")"}
      digits_then(rest) ==
        \E d \in 1..3 :
          /\ d + Len(rest) = n
          /\ AllDigits(SubSeq(tok, 1, d))
          /\ SubSeq(tok, d + 1, n) = rest
      inner == IF n >= 1 /\ tok[1] = "(" THEN SubSeq(tok, 2, n) ELSE tok
      m == Len(inner)
  IN  \/ n = 1 /\ tok[1] \in BulletChars
      \/ \E c \in closers : digits_then(<<c>>)
      \/ \E d \in 1..3 :
           /\ d <= m
           /\ AllDigits(SubSeq(inner, 1, d))
           /\ SubSeq(inner, d + 1, m) \in
                {<<>>, <<")">>, <<".">>, <<")", ")">>, <<")", ".">>}
      \/ n = 2 /\ tok[1] \in LowerLetters \cup UpperLetters /\ tok[2] \in closers

\* the position of the first whitespace character of t, 0 if there is none
first_space(t) ==
  LET sp == {p \in DOMAIN t : IsSpace(t[p])}
  IN  IF sp = {} THEN 0 ELSE SetMin(sp)

\* BULLET_RE.match(text): the prefix holds no whitespace, so it is the text
\* in front of the first whitespace
bullet_match(t) ==
  first_space(t) > 1 /\ is_bullet_token(SubSeq(t, 1, first_space(t) - 1))

\* BULLET_RE.sub("", text): the matched prefix and all whitespace after it
bullet_sub(t) ==
  IF bullet_match(t) THEN lstrip(SubSeq(t, first_space(t), Len(t))) ELSE t

\* text.rstrip().endswith("?")
ends_with_qmark(t) == rstrip(t) # <<>> /\ rstrip(t)[Len(rstrip(t))] = "?"

\* lines.sort(key=lambda l: (l.page, -l.y1, l.x0)): stable
line_before(a, b) ==
  \/ a.page < b.page
  \/ a.page = b.page /\ a.y1 > b.y1
  \/ a.page = b.page /\ a.y1 = b.y1 /\ a.x0 < b.x0
RECURSIVE insert_line(_, _)
insert_line(sorted, e) ==
  IF sorted = <<>> THEN <<e>>
  ELSE IF line_before(e, Head(sorted)) THEN <<e>> \o sorted
  ELSE <<Head(sorted)>> \o insert_line(Tail(sorted), e)
RECURSIVE sort_lines(_)
sort_lines(ls) ==
  IF ls = <<>> THEN <<>>
  ELSE insert_line(sort_lines(SubSeq(ls, 1, Len(ls) - 1)), ls[Len(ls)])

\* collect_ordered_lines: strip each text, skip the empty ones, sort.  The
\* field id is the line's position in the layout stream (history only).
collect_ordered_lines(layout_lines) ==
  LET stripped == [i \in DOMAIN layout_lines |->
                     [layout_lines[i] EXCEPT !.text = strip(@), !.id = i]]
  IN  sort_lines(SelectSeq(stripped, LAMBDA l : l.text # <<>>))

\* " ".join(x.strip() for x in buf).strip(), then re.sub(r"\s+", " ", s)
flush_string(b) ==
  ws_collapse_strip(strip(join([i \in DOMAIN b |-> strip(b[i])])))

\* flush(): st holds items and buf, and as history the ids of the lines in
\* buf and, per line id, the string the line was flushed as and the ids of
\* the lines it was flushed with
flush(st) ==
  LET s == flush_string(st.buf)
  IN  [items |-> IF st.buf # <<>> /\ s # <<>> THEN Append(st.items, s) ELSE st.items,
       buf |-> <<>>,
       buf_ids |-> <<>>,
       flushed_as |-> [id \in DOMAIN st.flushed_as |->
                         IF id \in Range(st.buf_ids) THEN s ELSE st.flushed_as[id]],
       flushed_with |-> [id \in DOMAIN st.flushed_with |->
                           IF id \in Range(st.buf_ids) THEN st.buf_ids
                           ELSE st.flushed_with[id]]]

\* the gap test with the factor 22 in place of 2.2
gap_exceeds_factor_22(gap, size) == 10 * gap > Max2(200, 220 * size)
\* gap > max(20.0, 2.2 * last_size), in tenths
gap_exceeds(gap, size) == 10 * gap > Max2(200, 22 * size)

\* the flush() after the loop
final_flush_missing(st) == st
final_flush(st) == flush(st)

\* the deduplication loop: the first occurrence of every item, in order
RECURSIVE unique(_, _)
unique(its, seen) ==
  IF its = <<>> THEN <<>>
  ELSE IF Head(its) \in seen THEN unique(Tail(its), seen)
  ELSE <<Head(its)>> \o unique(Tail(its), seen \cup {Head(its)})

\* the layout lines a document can hold (text, left edge, top edge, average
\* glyph size; avg_font_size gives 0 for a line without glyphs)
LinePool ==
  {[id |-> 0, page |-> 1, text |-> <<"P", "a", "g", "e", " ", "1">>,
    x0 |-> 10, y1 |-> 100, avg_size |-> 10],
   [id |-> 0, page |-> 1, text |-> <<"1", ")", " ", "W", "h", "y", " ", "b", "?">>,
    x0 |-> 10, y1 |-> 90, avg_size |-> 10],
   [id |-> 0, page |-> 1, text |-> <<"-", " ", "b">>,
    x0 |-> 10, y1 |-> 80, avg_size |-> 10],
   [id |-> 0, page |-> 1, text |-> <<"c", " ", " ", "d">>,
    x0 |-> 50, y1 |-> 80, avg_size |-> 0],
   [id |-> 0, page |-> 1, text |-> <<"W", "h", "y", " ", "b", "?">>,
    x0 |-> 10, y1 |-> 30, avg_size |-> 10],
   [id |-> 0, page |-> 2, text |-> <<" ">>,
    x0 |-> 10, y1 |-> 100, avg_size |-> 10],
   [id |-> 0, page |-> 2, text |-> <<"c", " ", " ", "d">>,
    x0 |-> 10, y1 |-> 100, avg_size |-> 10],
   [id |-> 0, page |-> 2, text |-> <<"e">>,
    x0 |-> 10, y1 |-> 95, avg_size |-> 10]}

QuestionsInit ==
  /\ layout \in SeqsUpTo(LinePool, MaxLines)
  /\ lines = <<>>
  /\ li = 0
  /\ items = <<>>
  /\ buf = <<>>
  /\ last_y = None
  /\ last_size = None
  /\ unique_items = <<>>
  /\ qpc = "collect"
  /\ buf_ids = <<>>
  /\ flushed_as = [id \in DOMAIN layout |-> <<>>]
  /\ flushed_with = [id \in DOMAIN layout |-> <<>>]
  /\ skipped_empty = {}
  /\ skipped_header = {}

\* main: lines = collect_ordered_lines(args.pdf)
QCollect ==
  /\ qpc = "collect"
  /\ lines' = collect_ordered_lines(layout)
  /\ skipped_empty' = {i \in DOMAIN layout : strip(layout[i].text) = <<>>}
  /\ li' = 1
  /\ qpc' = "loop"
  /\ UNCHANGED <<layout, items, buf, last_y, last_size, unique_items,
                 buf_ids, flushed_as, flushed_with, skipped_header>>
  /\ UNCHANGED <<mvars, nvars, tvars, pvars>>

\* extract_questions: one iteration of `for ln in lines`
QLine ==
  /\ qpc = "loop"
  /\ li <= Len(lines)
  /\ LET ln == lines[li]
     IN  IF header_match(lower(ln.text))
         THEN /\ skipped_header' = skipped_header \cup {ln.id}
              /\ UNCHANGED <<items, buf, buf_ids, flushed_as, flushed_with, last_y,
                             last_size>>
         ELSE LET s0 == [items |-> items, buf |-> buf, buf_ids |-> buf_ids,
                         flushed_as |-> flushed_as,
                         flushed_with |-> flushed_with]
                  s1 == IF /\ last_y # None
                           /\ last_size # None
                           /\ gap_exceeds(last_y[1] - ln.y1, last_size[1])
                        THEN flush(s0) ELSE s0
                  s2 == IF bullet_match(ln.text) THEN flush(s1) ELSE s1
                  text == bullet_sub(ln.text)
                  s3 == [s2 EXCEPT !.buf = Append(@, text),
                                   !.buf_ids = Append(@, ln.id)]
                  s4 == IF ends_with_qmark(text) THEN flush(s3) ELSE s3
              IN  /\ items' = s4.items
                  /\ buf' = s4.buf
                  /\ buf_ids' = s4.buf_ids
                  /\ flushed_as' = s4.flushed_as
                  /\ flushed_with' = s4.flushed_with
                  /\ last_y' = Some(ln.y1)
                  /\ last_size' = IF ln.avg_size # 0 THEN Some(ln.avg_size)
                                  ELSE last_size
                  /\ UNCHANGED skipped_header
  /\ li' = li + 1
  /\ UNCHANGED <<layout, lines, unique_items, qpc, skipped_empty>>
  /\ UNCHANGED <<mvars, nvars, tvars, pvars>>

\* extract_questions: the last flush, the deduplication, the return
QReturn ==
  /\ qpc = "loop"
  /\ li > Len(lines)
  /\ LET s == final_flush([items |-> items, buf |-> buf, buf_ids |-> buf_ids,
                           flushed_as |-> flushed_as,
                           flushed_with |-> flushed_with])
     IN  /\ items' = s.items
         /\ buf' = s.buf
         /\ buf_ids' = s.buf_ids
         /\ flushed_as' = s.flushed_as
         /\ flushed_with' = s.flushed_with
         /\ unique_items' = unique(s.items, {})
  /\ qpc' = "done"
  /\ UNCHANGED <<layout, lines, li, last_y, last_size, skipped_empty,
                 skipped_header>>
  /\ UNCHANGED <<mvars, nvars, tvars, pvars>>

(* ------------------------ normalize on alias pairs --------------------- *)
\* the (canon, syn) pairs of the built-in table
AliasPairs ==
  UNION {{[canon |-> default_aliases[e].canon, syn |-> default_aliases[e].syns[k]] :
            k \in DOMAIN default_aliases[e].syns} : e \in DOMAIN default_aliases}
\* the words around the synonym: a plain word, a stopword, a word with a
\* capital or punctuation
LeftWords ==
  {<<"z", "z">>, <<"t", "h", "e">>, <<"E", "x", "p", "l", "a", "i", "n">>}
RightWords ==
  {<<"y", "y">>, <<"o", "f">>, <<"n", "o", "w", "?">>}

NormalizeInit ==
  /\ \E p \in AliasPairs, l \in LeftWords, r \in RightWords :
       /\ n_canon = p.canon
       /\ n_syn = p.syn
       /\ n_text = l \o <<" ">> \o p.syn \o <<" ">> \o r
  /\ n_out = <<>>
  /\ npc = "call"

\* normalize(text, load_aliases(None))
NormalizeCall ==
  /\ npc = "call"
  /\ n_out' = normalize(n_text, default_aliases)
  /\ npc' = "done"
  /\ UNCHANGED <<n_canon, n_syn, n_text>>
  /\ UNCHANGED <<mvars, qvars, tvars, pvars>>

(* ----------------------- extract_slide_titles.py ----------------------- *)
\* the defaults of --top-ratio and --merge-threshold, in hundredths, and
\* the fallback page height
TopRatio == 35
MergeThreshold == 90
DefaultPageHeight == 842

Abs(x) == IF x >= 0 THEN x ELSE -x

\* the lines of a page that extract_titles collects: the text stripped, no
\* empty text, no line without glyph size (line_avg_font_size gives None)
usable_lines(idx, layout_lines) ==
  LET infos == [i \in DOMAIN layout_lines |->
                  [page |-> idx, text |-> strip(layout_lines[i].text),
                   x0 |-> layout_lines[i].x0, y0 |-> layout_lines[i].y0,
                   x1 |-> layout_lines[i].x1, y1 |-> layout_lines[i].y1,
                   avg_size |-> layout_lines[i].avg_size]]
      kept == SelectSeq(infos, LAMBDA l : l.text # <<>> /\ l.avg_size # None)
  IN  [i \in DOMAIN kept |-> [kept[i] EXCEPT !.avg_size = @[1]]]

\* page_height = getattr(layout, "height", None), 842.0 if falsy
page_height(page) == IF page.height = 0 THEN DefaultPageHeight ELSE page.height

\* ln.y1 >= top_cut with top_cut = page_height * (1 - top_ratio)
in_top_area(l, height) == 100 * l.y1 >= height * (100 - TopRatio)

\* top_lines.sort(key=lambda ln: (ln.avg_size, ln.y1), reverse=True): stable
title_key_geq(a, b) ==
  a.avg_size > b.avg_size \/ (a.avg_size = b.avg_size /\ a.y1 >= b.y1)
RECURSIVE insert_by_title_key(_, _)
insert_by_title_key(sorted, e) ==
  IF sorted = <<>> THEN <<e>>
  ELSE IF title_key_geq(Head(sorted), e)
       THEN <<Head(sorted)>> \o insert_by_title_key(Tail(sorted), e)
       ELSE <<e>> \o sorted
RECURSIVE sort_by_title_key(_)
sort_by_title_key(ls) ==
  IF ls = <<>> THEN <<>>
  ELSE insert_by_title_key(sort_by_title_key(SubSeq(ls, 1, Len(ls) - 1)), ls[Len(ls)])

\* candidates_below.sort(key=lambda ln: abs(ln.y1 - title.y0)): stable
RECURSIVE insert_by_distance(_, _, _)
insert_by_distance(sorted, e, title) ==
  IF sorted = <<>> THEN <<e>>
  ELSE IF Abs(Head(sorted).y1 - title.y0) <= Abs(e.y1 - title.y0)
       THEN <<Head(sorted)>> \o insert_by_distance(Tail(sorted), e, title)
       ELSE <<e>> \o sorted
RECURSIVE sort_by_distance(_, _)
sort_by_distance(ls, title) ==
  IF ls = <<>> THEN <<>>
  ELSE insert_by_distance(sort_by_distance(SubSeq(ls, 1, Len(ls) - 1), title),
                          ls[Len(ls)], title)

\* the filter of candidates_below: strictly below the title by bottom edge
\* (the size term of the filter is a quotient of non-negatives, never < 0)
is_below(l, title) ==
  l.y0 < title.y0 /\ Abs(l.avg_size - title.avg_size) >= 0

\* the three tests of the merge loop, in hundredths and tenths
size_similar(l, title) ==
  100 * Min2(title.avg_size, l.avg_size)
    >= MergeThreshold * Max2(title.avg_size, l.avg_size)
vertically_close(l, title) == 10 * (title.y0 - l.y1) <= 16 * title.avg_size
horizontally_aligned(l, title) ==
  10 * Abs(l.x0 - title.x0) <= Max2(100, 8 * title.avg_size)
mergeable(l, title) ==
  size_similar(l, title) /\ vertically_close(l, title) /\ horizontally_aligned(l, title)

\* the merge loop left after its first iteration
merge_closest_only(title, candidates) ==
  IF candidates # <<>> /\ mergeable(candidates[1], title)
  THEN strip(title.text \o <<" ">> \o candidates[1].text)
  ELSE title.text

\* for ln in candidates_below: merge the first that passes, then break
merge_first(title, candidates) ==
  LET ok == {i \in DOMAIN candidates : mergeable(candidates[i], title)}
  IN  IF ok = {} THEN title.text
      ELSE strip(title.text \o <<" ">> \o candidates[SetMin(ok)].text)

\* the title of a page with at least one usable line.  When no line is in
\* the top area, top_lines is the list lines itself and the sort reorders it.
page_title(ls, height) ==
  LET in_top == SelectSeq(ls, LAMBDA l : in_top_area(l, height))
      top_lines == sort_by_title_key(IF in_top = <<>> THEN ls ELSE in_top)
      lines_after == IF in_top = <<>> THEN top_lines ELSE ls
      title == top_lines[1]
      candidates_below ==
        sort_by_distance(SelectSeq(lines_after, LAMBDA l : is_below(l, title)), title)
  IN  merge_first(title, candidates_below)

\* if not lines: results.append((page_idx, "")); continue
empty_page_skipped(idx) == <<>>
empty_page_rows(idx) == <<[page |-> idx, title |-> <<>>]>>

\* the rows one iteration of the page loop appends
page_rows(idx, page) ==
  LET ls == usable_lines(idx, page.lines)
  IN  IF ls = <<>> THEN empty_page_rows(idx)
      ELSE <<[page |-> idx, title |-> page_title(ls, page_height(page))]>>

\* str(n) for n >= 0
DigitChars == <<"0", "1", "2", "3", "4", "5", "6", "7", "8", "9">>
RECURSIVE int_str(_)
int_str(n) ==
  IF n < 10 THEN <<DigitChars[n + 1]>>
  ELSE int_str(n \div 10) \o <<DigitChars[(n % 10) + 1]>>

\* f"{page}|{text}"  (written with a newline after it)
row_line(row) == int_str(row.page) \o <<"|">> \o row.title

\* the pages a slides document can hold
PgEmpty ==
  [height |-> 100,
   lines |-> <<>>]
PgNoGlyph ==
  [height |-> 100,
   lines |-> <<[text |-> <<"x">>, x0 |-> 10, y0 |-> 80, x1 |-> 60, y1 |-> 90,
        avg_size |-> None],
       [text |-> <<" ">>, x0 |-> 10, y0 |-> 60, x1 |-> 60, y1 |-> 70,
        avg_size |-> Some(10)]>>]
PgTwoLine ==
  [height |-> 100,
   lines |-> <<[text |-> <<"w">>, x0 |-> 10, y0 |-> 40, x1 |-> 60, y1 |-> 48,
        avg_size |-> Some(8)],
       [text |-> <<"T">>, x0 |-> 10, y0 |-> 80, x1 |-> 60, y1 |-> 90,
        avg_size |-> Some(10)],
       [text |-> <<"U">>, x0 |-> 10, y0 |-> 68, x1 |-> 60, y1 |-> 78,
        avg_size |-> Some(10)]>>]
PgNotClosest ==
  [height |-> 100,
   lines |-> <<[text |-> <<"T">>, x0 |-> 10, y0 |-> 70, x1 |-> 60, y1 |-> 90,
        avg_size |-> Some(20)],
       [text |-> <<"U">>, x0 |-> 10, y0 |-> 40, x1 |-> 60, y1 |-> 60,
        avg_size |-> Some(20)],
       [text |-> <<"n">>, x0 |-> 10, y0 |-> 62, x1 |-> 60, y1 |-> 68,
        avg_size |-> Some(10)]>>]
PgFallback ==
  [height |-> 0,
   lines |-> <<[text |-> <<"a">>, x0 |-> 10, y0 |-> 40, x1 |-> 60, y1 |-> 50,
        avg_size |-> Some(10)],
       [text |-> <<"B">>, x0 |-> 10, y0 |-> 20, x1 |-> 60, y1 |-> 32,
        avg_size |-> Some(12)],
       [text |-> <<"c">>, x0 |-> 30, y0 |-> 5, x1 |-> 60, y1 |-> 16,
        avg_size |-> Some(12)]>>]
PgSide ==
  [height |-> 100,
   lines |-> <<[text |-> <<"T">>, x0 |-> 10, y0 |-> 80, x1 |-> 40, y1 |-> 90,
        avg_size |-> Some(10)],
       [text |-> <<"V">>, x0 |-> 50, y0 |-> 80, x1 |-> 90, y1 |-> 90,
        avg_size |-> Some(10)],
       [text |-> <<"z">>, x0 |-> 40, y0 |-> 50, x1 |-> 90, y1 |-> 58,
        avg_size |-> Some(10)]>>]
PagePool == {PgEmpty, PgNoGlyph, PgTwoLine, PgNotClosest, PgFallback, PgSide}

TitlesInit ==
  /\ document \in SeqsUpTo(PagePool, MaxPages)
  /\ rows = <<>>
  /\ page_idx = 1
  /\ out_file = <<>>
  /\ tpc = "pages"

\* extract_titles: one iteration of `for page_idx, layout in enumerate(...)`
TPage ==
  /\ tpc = "pages"
  /\ page_idx <= Len(document)
  /\ rows' = rows \o page_rows(page_idx, document[page_idx])
  /\ page_idx' = page_idx + 1
  /\ UNCHANGED <<document, out_file, tpc>>
  /\ UNCHANGED <<mvars, qvars, nvars, pvars>>

\* extract_titles returns; main writes one line per row
TWrite ==
  /\ tpc = "pages"
  /\ page_idx > Len(document)
  /\ out_file' = [i \in DOMAIN rows |-> row_line(rows[i])]
  /\ tpc' = "done"
  /\ UNCHANGED <<document, rows, page_idx>>
  /\ UNCHANGED <<mvars, qvars, nvars, pvars>>

(* --------------------------- run_pipeline.py --------------------------- *)
\* int(s) for a string of digits
RECURSIVE parse_int(_)
parse_int(s) ==
  LET digit(c) == CHOOSE v \in 0..9 : DigitChars[v + 1] = c
  IN  IF s = <<>> THEN 0
      ELSE 10 * parse_int(SubSeq(s, 1, Len(s) - 1)) + digit(s[Len(s)])

RECURSIVE pow10(_)
pow10(k) == IF k = 0 THEN 1 ELSE 10 * pow10(k - 1)

\* float(s) for a string digits "." digits
parse_float(s) ==
  LET dot == SetMin({i \in DOMAIN s : s[i] = "."})
      frac == SubSeq(s, dot + 1, Len(s))
  IN  Ratio(parse_int(SubSeq(s, 1, dot - 1)) * pow10(Len(frac)) + parse_int(frac),
            pow10(Len(frac)))

\* str(x) for a float x of at most two decimals: the shortest digits that
\* read back as x, at least one after the point
float_str(x) ==
  LET h == (100 * x.n) \div x.d
      whole == int_str(h \div 100)
      f == h % 100
  IN  IF f % 10 = 0 THEN whole \o <<".">> \o int_str(f \div 10)
      ELSE whole \o <<".">> \o <<DigitChars[(f \div 10) + 1], DigitChars[(f % 10) + 1]>>

\* the defaults of run_pipeline.py: --min-score 0.72, --max-matches 3
DriverDefaultMinScore == Ratio(72, 100)
DriverDefaultMaxMatches == 3
\* the defaults of match_topics.py: --min-score 0.72, --max-matches 2
MatcherDefaultMinScore == Ratio(72, 100)
MatcherDefaultMaxMatches == 2

\* ap.parse_args() of run_pipeline.py on the options given
driver_args(g) ==
  [min_score   |-> IF g.min_score = None THEN DriverDefaultMinScore
                   ELSE parse_float(g.min_score[1]),
   max_matches |-> IF g.max_matches = None THEN DriverDefaultMaxMatches
                   ELSE parse_int(g.max_matches[1]),
   aliases     |-> g.aliases]

\* the options of the matcher command that main builds
matcher_cmd(a) ==
  [min_score   |-> Some(float_str(a.min_score)),
   max_matches |-> Some(int_str(a.max_matches)),
   aliases     |-> a.aliases]

\* ap.parse_args() of match_topics.py on the options of the command
matcher_args(c) ==
  [min_score   |-> IF c.min_score = None THEN MatcherDefaultMinScore
                   ELSE parse_float(c.min_score[1]),
   max_matches |-> IF c.max_matches = None THEN MatcherDefaultMaxMatches
                   ELSE parse_int(c.max_matches[1]),
   aliases     |-> c.aliases]

\* subprocess.check_call raises CalledProcessError on a non-zero return code
check_call_never_raises(rc) == FALSE
check_call_raises(rc) == rc # 0

Stages == <<"extract_slide_titles", "extract_exam_questions", "match_topics">>
ReturnCodes == {0, 1}

\* the options a run of the driver can be given
GivenPool ==
  [min_score   : {None, Some(<<"0", ".", "5">>)},
   max_matches : {None, Some(<<"1">>), Some(<<"2">>), Some(<<"5">>)},
   aliases     : {None, Some("aliases.json")}]

PipelineInit ==
  /\ given \in GivenPool
  /\ pdfminer_ok \in BOOLEAN
  /\ args = <<>>
  /\ ppc = "parse"
  /\ exit_code = None
  /\ cmd = <<>>
  /\ started = <<>>
  /\ returncodes = <<>>

\* main: args = ap.parse_args()
PParse ==
  /\ ppc = "parse"
  /\ args' = driver_args(given)
  /\ ppc' = "check"
  /\ UNCHANGED <<given, pdfminer_ok, exit_code, cmd, started, returncodes>>
  /\ UNCHANGED <<mvars, qvars, nvars, tvars>>

\* main: if not ensure_pdfminer(): ... sys.exit(2)
PCheck ==
  /\ ppc = "check"
  /\ IF pdfminer_ok
     THEN ppc' = "start" /\ UNCHANGED exit_code
     ELSE ppc' = "exited" /\ exit_code' = Some(2)
  /\ UNCHANGED <<given, pdfminer_ok, args, cmd, started, returncodes>>
  /\ UNCHANGED <<mvars, qvars, nvars, tvars>>

\* main: subprocess.check_call starts the next stage; the third command
\* carries the matcher options
PStart ==
  /\ ppc = "start"
  /\ Len(started) < Len(Stages)
  /\ started' = Append(started, Stages[Len(started) + 1])
  /\ cmd' = IF Len(started) = 2 THEN matcher_cmd(args) ELSE cmd
  /\ ppc' = "wait"
  /\ UNCHANGED <<given, pdfminer_ok, args, exit_code, returncodes>>
  /\ UNCHANGED <<mvars, qvars, nvars, tvars>>

\* main: the stage ends; check_call returns, or raises and the uncaught
\* CalledProcessError ends the driver with exit code 1
PWait ==
  /\ ppc = "wait"
  /\ \E rc \in ReturnCodes :
       /\ returncodes' = Append(returncodes, rc)
       /\ IF check_call_raises(rc)
          THEN ppc' = "exited" /\ exit_code' = Some(1)
          ELSE ppc' = "start" /\ UNCHANGED exit_code
  /\ UNCHANGED <<given, pdfminer_ok, args, cmd, started>>
  /\ UNCHANGED <<mvars, qvars, nvars, tvars>>

\* main: print("\nDone. Open:", args.out) and the normal return
PFinish ==
  /\ ppc = "start"
  /\ Len(started) = Len(Stages)
  /\ ppc' = "exited"
  /\ exit_code' = Some(0)
  /\ UNCHANGED <<given, pdfminer_ok, args, cmd, started, returncodes>>
  /\ UNCHANGED <<mvars, qvars, nvars, tvars>>

(* --------------------------- specifications ---------------------------- *)
\* match_topics on bounded inputs
Init == MatchInit /\ QuestionsIdle /\ NormalizeIdle /\ TitlesIdle /\ PipelineIdle
Next == MatchStart \/ MatchTopic \/ MatchReturn
Spec == Init /\ [][Next]_vars

\* collect_ordered_lines and extract_questions on bounded documents
InitQuestions ==
  QuestionsInit /\ MatchIdle /\ NormalizeIdle /\ TitlesIdle /\ PipelineIdle
NextQuestions == QCollect \/ QLine \/ QReturn
SpecQuestions == InitQuestions /\ [][NextQuestions]_vars

\* normalize on every pair of the built-in alias table
InitNormalize ==
  NormalizeInit /\ MatchIdle /\ QuestionsIdle /\ TitlesIdle /\ PipelineIdle
NextNormalize == NormalizeCall
SpecNormalize == InitNormalize /\ [][NextNormalize]_vars

\* extract_titles and the write of main on bounded documents
InitTitles ==
  TitlesInit /\ MatchIdle /\ QuestionsIdle /\ NormalizeIdle /\ PipelineIdle
NextTitles == TPage \/ TWrite
SpecTitles == InitTitles /\ [][NextTitles]_vars

\* the pipeline driver on every choice of options and stage outcomes
InitPipeline ==
  PipelineInit /\ MatchIdle /\ QuestionsIdle /\ NormalizeIdle /\ TitlesIdle
NextPipeline == PParse \/ PCheck \/ PStart \/ PWait \/ PFinish
SpecPipeline == InitPipeline /\ [][NextPipeline]_vars

(* ------------------------ properties: match_topics --------------------- *)
Count(seq, x) == Cardinality({i \in DOMAIN seq : seq[i] = x})
Claims(q) == Cardinality({i \in DOMAIN results : results[i].exam_question = q})
MatchDone == mpc = "done"
IsExampleRun ==
  /\ slides = ExampleSlides
  /\ exam = ExampleExam
  /\ aliases = default_aliases
  /\ min_score = Ratio(72, 100)
  /\ max_matches = 2

\* C1 (as claimed): no record of results has a score field (thousandths)
\* below min_score.
C1_ScoreFieldNotBelowMinScore ==
  \A i \in DOMAIN results : results[i].score * min_score.d >= 1000 * min_score.n

\* C1 (amended): the score field is round(s, 3) of a combined score
\* s >= min_score, so no record has a score field below min_score rounded to
\* three decimals.
C1_ScoreFieldNotBelowRoundedMinScore ==
  \A i \in DOMAIN results : results[i].score >= round3(min_score)

\* C1 witness: a run with a positive threshold that let one topic's
\* candidate through and left another topic without any.
C1_Witness ==
  /\ MatchDone
  /\ min_score.n > 0
  /\ results # <<>>
  /\ unmatched_slides # <<>>

\* C2 (as claimed, on the runs with max_matches >= 0): for every topic
\* string, the number of records that carry it is at most max_matches.
C2_RecordsPerTopicStringCapped ==
  max_matches >= 0 =>
    \A k \in DOMAIN slides :
      Cardinality({i \in DOMAIN results : results[i].slide_topic = slides[k].topic})
        <= max_matches

\* C2 (amended): for every (page, topic) entry of slides, the records that
\* its iteration appended number at most max_matches when max_matches >= 0,
\* and at most max(0, len(exam) + max_matches) when max_matches is negative.
C2_RecordsPerEntryCapped ==
  \A k \in DOMAIN slides :
    Count(origin, k) <= IF max_matches >= 0 THEN max_matches
                        ELSE Max2(0, Len(exam) + max_matches)

\* C2 witness: the cap of one cut the second of two passing questions.
C2_Witness ==
  /\ MatchDone
  /\ max_matches = 1
  /\ min_score.n = 0
  /\ Len(exam) = 2
  /\ Len(slides) >= 1
  /\ Count(origin, 1) = 1

\* C3 (as claimed): after the return, a question string claimed by some
\* record is absent from unmatched_exam, and one claimed by none is there
\* as often as in exam.
C3_ClaimedXorUnmatched ==
  MatchDone =>
    \A q \in Range(exam) :
      IF Claims(q) > 0 THEN Count(unmatched_exam, q) = 0
      ELSE Count(unmatched_exam, q) = Count(exam, q)

\* C3 (amended): a question string that occurs m times in exam and that k
\* records claim occurs max(0, m - k) times in unmatched_exam, which holds
\* nothing else; without duplicate questions this is the claimed partition.
C3_UnmatchedIsExamMinusClaims ==
  mpc # "start" =>
    /\ Range(unmatched_exam) \subseteq Range(exam)
    /\ \A q \in Range(exam) :
         Count(unmatched_exam, q) = Max2(0, Count(exam, q) - Claims(q))

\* C3 witness: a question given twice and claimed by exactly one record.
C3_Witness ==
  /\ MatchDone
  /\ \E q \in Range(exam) : Count(exam, q) = 2 /\ Claims(q) = 1

\* C4 (as claimed): the example run returns two records, pages 1 and 2 in
\* that order, each high or medium, and both unmatched lists empty.
C4_ExampleYieldsTwoRecords ==
  (MatchDone /\ IsExampleRun) =>
    /\ Len(results) = 2
    /\ results[1].page = 1
    /\ results[2].page = 2
    /\ \A i \in DOMAIN results : results[i].confidence \in {"high", "medium"}
    /\ unmatched_slides = <<>>
    /\ unmatched_exam = <<>>

\* C4 (amended): the example run returns no record; both topics are in the
\* unmatched-topics list and both questions in the unmatched-questions list
\* (the best combined scores, 0.518 and 0.496, are below 0.72).
C4_ExampleYieldsNoRecord ==
  (MatchDone /\ IsExampleRun) =>
    /\ results = <<>>
    /\ unmatched_slides = ExampleSlides
    /\ unmatched_exam = ExampleExam

\* C4 witness: the example run has returned.
C4_Witness == MatchDone /\ IsExampleRun /\ ti = 3

\* C10: records are in the order of their slides entries, and the records
\* of one entry are in non-increasing score order.
C10_RecordsOrdered ==
  \A i, j \in DOMAIN results :
    i < j =>
      /\ origin[i] <= origin[j]
      /\ origin[i] = origin[j] => results[i].score >= results[j].score

\* C10 witness: two entries produced records, one of them two records of
\* different score.
C10_Witness ==
  /\ MatchDone
  /\ \E i, j \in DOMAIN results :
       i < j /\ origin[i] = origin[j] /\ results[i].score > results[j].score
  /\ \E i, j \in DOMAIN results : origin[i] < origin[j]

(* --------------------- properties: extract_questions ------------------- *)
IsInfix(p, t) == \E i \in 0..(Len(t) - Len(p)) : SubSeq(t, i + 1, i + Len(p)) = p
\* what extract_questions appends to buf for a layout line
AppendedText(l) == ws_collapse_strip(bullet_sub(strip(l.text)))

\* C5: once extract_questions has returned, every layout line was skipped
\* as empty, or skipped as a header, or was flushed as a string that is
\* exactly one item of the returned list and contains the line's text.
C5_EveryLineClassified ==
  qpc = "done" =>
    \A id \in DOMAIN layout :
      \/ id \in skipped_empty
      \/ id \in skipped_header
      \/ /\ flushed_as[id] # <<>>
         /\ Cardinality({k \in DOMAIN unique_items : unique_items[k] = flushed_as[id]}) = 1
         /\ IsInfix(AppendedText(layout[id]), flushed_as[id])

\* C5 witness: a run that skipped a line and dropped a repeated item.
C5_Witness ==
  /\ qpc = "done"
  /\ skipped_empty \cup skipped_header # {}
  /\ Len(unique_items) < Len(items)
  /\ unique_items # <<>>


\* the lines of the sorted list that the loop keeps
Kept(p) == ~header_match(lower(lines[p].text))
\* the kept line that follows the kept line p, if any
NextKept(p) ==
  LET later == {q \in DOMAIN lines : q > p /\ Kept(q)}
  IN  IF later = {} THEN None ELSE Some(SetMin(later))
\* the vertical gap between two lines of the sorted list, and the bound
\* max(20.0, 2.2 * size) on it, in tenths
GapBetween(p, q) == lines[p].y1 - lines[q].y1
OverBound(gap, size) == 10 * gap > (IF 22 * size > 200 THEN 22 * size ELSE 200)
\* the kept lines up to p that have a glyph size
SizedUpTo(p) == {k \in 1..p : Kept(k) /\ lines[k].avg_size # 0}
\* two lines of the sorted list are in the buffer together, or were flushed
\* together as one item
InOneItem(p, q) ==
  \/ {lines[p].id, lines[q].id} \subseteq Range(buf_ids)
  \/ lines[q].id \in Range(flushed_with[lines[p].id])

\* C11: two consecutive kept lines are never in the buffer together and never
\* flushed into one item when the gap between them exceeds
\* max(20.0, 2.2 * the average glyph size of the earlier line).
C11_SplitOnPreviousLineSize ==
  qpc \in {"loop", "done"} =>
    \A p \in DOMAIN lines :
      (Kept(p) /\ NextKept(p) # None) =>
        LET q == NextKept(p)[1]
        IN  OverBound(GapBetween(p, q), lines[p].avg_size) => ~InOneItem(p, q)

\* C11, as the code has it: two consecutive kept lines are never in the buffer
\* together and never flushed into one item when some kept line up to the
\* earlier one has a glyph size and the gap between the two exceeds
\* max(20.0, 2.2 * the size of the latest such line); in particular not when
\* the earlier line has glyph size 10 and the gap is 50.
C11_SplitOnLastKnownSize ==
  qpc \in {"loop", "done"} =>
    \A p \in DOMAIN lines :
      (Kept(p) /\ NextKept(p) # None /\ SizedUpTo(p) # {}) =>
        LET q == NextKept(p)[1]
            size == lines[SetMax(SizedUpTo(p))].avg_size
        IN  OverBound(GapBetween(p, q), size) => ~InOneItem(p, q)

\* C11 witness: extract_questions has returned after two kept lines with a
\* gap of 50, the earlier of glyph size 10 and not ending an item by itself,
\* the later no bullet, and the two were flushed as two items.
C11_Witness ==
  /\ qpc = "done"
  /\ Len(lines) >= 2
  /\ Kept(1) /\ Kept(2)
  /\ lines[1].avg_size = 10
  /\ GapBetween(1, 2) = 50
  /\ ~bullet_match(lines[2].text)
  /\ ~ends_with_qmark(bullet_sub(lines[1].text))
  /\ flushed_with[lines[1].id] = <<lines[1].id>>
  /\ flushed_with[lines[2].id] = <<lines[2].id>>
  /\ Len(unique_items) = 2

(* -------------------------- properties: normalize ---------------------- *)
\* the words ws occur in text as consecutive whitespace-separated tokens
ContainsTokens(text, ws) == IsInfix(ws, split(text))
\* the words of a term once its punctuation has become spaces
PlainWords(term) == split(punct_sub(term))

\* C6 (as claimed, taking canon up to the punctuation that normalize turns
\* into spaces): normalize of a text with syn as a whole word between other
\* words contains canon as consecutive tokens and not syn as tokens.
C6_CanonReplacesSynonym ==
  npc = "done" =>
    /\ ContainsTokens(n_out, PlainWords(n_canon))
    /\ ~ContainsTokens(n_out, split(n_syn))

\* C6 (amended): the result contains the words of canon with its
\* punctuation replaced by spaces, as consecutive tokens; and it contains
\* the words of syn neither as written nor with punctuation replaced,
\* unless these are the words of canon itself.
C6_PlainCanonReplacesSynonym ==
  npc = "done" =>
    /\ ContainsTokens(n_out, PlainWords(n_canon))
    /\ PlainWords(n_syn) # PlainWords(n_canon) =>
         /\ ~ContainsTokens(n_out, split(n_syn))
         /\ ~ContainsTokens(n_out, PlainWords(n_syn))

\* C6 witness: a synonym of a hyphenated canon that differs from it in
\* more than punctuation has been normalized.
C6_Witness ==
  /\ npc = "done"
  /\ "-" \in Range(n_canon)
  /\ PlainWords(n_syn) # PlainWords(n_canon)
  /\ n_out # <<>>

(* ------------------------ properties: extract_titles ------------------- *)
\* C7: extract_titles returns one row per page of the document, numbered
\* 1..N in page order, the title empty on every page without a usable line;
\* main writes one line per row.
C7_OneRowPerPage ==
  /\ tpc = "pages" => Len(rows) = page_idx - 1
  /\ \A i \in DOMAIN rows :
       /\ rows[i].page = i
       /\ usable_lines(i, document[i].lines) = <<>> => rows[i].title = <<>>
  /\ tpc = "done" =>
       /\ Len(rows) = Len(document)
       /\ Len(out_file) = Len(document)

\* C7 witness: a returned document with a page without usable lines after a
\* page with a title.
C7_Witness ==
  /\ tpc = "done"
  /\ Len(document) = 2
  /\ rows[1].title # <<>>
  /\ document[2].lines # <<>>
  /\ rows[2].title = <<>>


\* the usable lines of page i, and the height extract_titles takes for it
LinesOf(i) == usable_lines(i, document[i].lines)
HeightOf(i) == page_height(document[i])
\* the position in LinesOf(i) of the line selected as title: the first of the
\* lines with the largest (avg_size, y1) among the lines of the top area, or
\* among all lines when the top area is empty
TitleOf(i) ==
  LET ls == LinesOf(i)
      top == {k \in DOMAIN ls : in_top_area(ls[k], HeightOf(i))}
      among == IF top = {} THEN DOMAIN ls ELSE top
  IN  SetMin({k \in among : \A j \in among : title_key_geq(ls[k], ls[j])})
\* the lines strictly below the title by bottom edge, their distance to the
\* title's bottom edge, and those that pass the three merge tests
BelowOf(i) == {k \in DOMAIN LinesOf(i) : LinesOf(i)[k].y0 < LinesOf(i)[TitleOf(i)].y0}
DistOf(i, k) == Abs(LinesOf(i)[k].y1 - LinesOf(i)[TitleOf(i)].y0)
PassingOf(i) == {k \in BelowOf(i) : mergeable(LinesOf(i)[k], LinesOf(i)[TitleOf(i)])}
\* the closest of a set of lines of page i
ClosestOf(i, among) == {k \in among : \A j \in among : DistOf(i, k) <= DistOf(i, j)}
\* the title alone, and the title with line k merged
Alone(i) == LinesOf(i)[TitleOf(i)].text
MergedWith(i, k) == strip(Alone(i) \o <<" ">> \o LinesOf(i)[k].text)

EndedNormally(j) == j \in DOMAIN returncodes /\ returncodes[j] = 0

\* C8: in every run of the driver a stage is started only after the pdfminer
\* check has succeeded and every earlier stage has ended with return code 0:
\* the stages start in the order titles, questions, match; the match stage is
\* started only after both extraction stages ended normally; when pdfminer is
\* missing no stage is started and the driver exits with a non-zero code; and
\* after a stage has ended with a non-zero code no later stage is started and
\* the driver exits with a non-zero code.
C8_StagesStartInOrderAfterCheck ==
  /\ started = SubSeq(Stages, 1, Len(started))
  /\ Len(returncodes) \in {Len(started) - 1, Len(started)} \cap Nat
  /\ started # <<>> => (pdfminer_ok /\ ppc \notin {"parse", "check"})
  /\ \A i \in DOMAIN started : \A j \in 1..(i - 1) : EndedNormally(j)
  /\ (~pdfminer_ok /\ ppc = "exited") =>
       (started = <<>> /\ exit_code # None /\ exit_code[1] # 0)
  /\ ((\E j \in DOMAIN returncodes : returncodes[j] # 0) /\ ppc = "exited") =>
       (exit_code # None /\ exit_code[1] # 0)

\* the second stage has ended abnormally after the first ended normally, and
\* the driver has exited without starting the matcher
C8_Witness ==
  /\ pdfminer_ok
  /\ started = SubSeq(Stages, 1, 2)
  /\ returncodes = <<0, 1>>
  /\ ppc = "exited"
  /\ exit_code = Some(1)

\* C9: when the driver is given no --max-matches, the matcher stage runs with
\* max_matches 2, and when it is given no --min-score, with min_score 0.72.
C9_DriverRunsMatcherWithItsDefaults ==
  (ppc # "idle" /\ Len(started) = 3) =>
    /\ given.max_matches = None =>
         matcher_args(cmd).max_matches = MatcherDefaultMaxMatches
    /\ given.min_score = None =>
         /\ Geq(matcher_args(cmd).min_score, MatcherDefaultMinScore)
         /\ Geq(MatcherDefaultMinScore, matcher_args(cmd).min_score)

\* the matcher stage has been started by a driver given no --max-matches
C9_Witness ==
  /\ ppc # "idle"
  /\ given.max_matches = None
  /\ Len(started) = 3
  /\ matcher_args(cmd).max_matches = 3

====
